---- MODULE Spec2Model ----
(***************************************************************************)
(* Model of ilias' check engine: the rule evaluator (internal/evaluator),  *)
(* the probes (internal/checker) and the concurrent runner                 *)
(* (internal/runner).                                                      *)
(*                                                                         *)
(* Go strings are sequences of one-character strings, a nil pointer is the *)
(* empty sequence <<>> and a non-nil pointer to v is <<v>>; an error value *)
(* is a string, NilErr standing for the nil error.                         *)
(***************************************************************************)
EXTENDS Integers, Sequences, FiniteSets, TLC

VARIABLES
    \* one call of evaluator.Evaluate
    evPc, evResult, evRules, evDefault, evStatus,
    \* inputs of runner.Run: the configuration tree, the options, the context
    cfg, opts, ctxDone,
    \* Run's own goroutine: position, loop iterations left, pool size, output tree, returned error
    mainPc, todo, concurrency, result, retErr,
    \* what the goroutines share: the semaphore channel, the WaitGroup
    \* counter, the mutex and firstErr
    sem, wg, mu, firstErr,
    \* one goroutine per Generate step and per slot: position and locals
    pc, raw, sr, err, cause,
    \* number of assignments made to each leaf of the output tree
    writes,
    \* one call of Checker.Check: the checker's kind, what the network or the
    \* shell did, the Result returned
    prPc, prKind, prOutcome, prResult,
    \* the pool size computation at the head of Run
    plPc, plRequested, plNumCPU, plSize,
    \* the deadline of one probe or Generate command
    toPc, toKind, toConfigured, toDeadline,
    \* one call of runSlot: the options of the run, the slot, what its probe
    \* meets, the probe factory's return, the SlotResult, the lines written
    \* to Options.Logger
    slPc, slOpts, slSlot, slOutcome, slMade, slResult, slSink,
    \* the pool on a clock: number of checks, permits, duration of a check,
    \* position and remaining time of every check, the time
    tmN, tmK, tmD, tmState, tmLeft, tmClock,
    \* one call of config.Parse: the decoded document, the returned
    \* configuration and error
    paPc, paInput, paCfg, paErr

evVars == <<evPc, evResult, evRules, evDefault, evStatus>>

inVars == <<cfg, opts>>

mainVars == <<mainPc, todo, concurrency, result, retErr>>

sharedVars == <<sem, wg, mu, firstErr>>

taskVars == <<pc, raw, sr, err, cause>>

prVars == <<prPc, prKind, prOutcome, prResult>>

plVars == <<plPc, plRequested, plNumCPU, plSize>>

toVars == <<toPc, toKind, toConfigured, toDeadline>>

slVars == <<slPc, slOpts, slSlot, slOutcome, slMade, slResult, slSink>>

tmVars == <<tmN, tmK, tmD, tmState, tmLeft, tmClock>>

paVars == <<paPc, paInput, paCfg, paErr>>

unitVars == <<prVars, plVars, toVars, slVars, tmVars, paVars>>

runVars == <<cfg, opts, ctxDone, mainPc, todo, concurrency, result, retErr,
             sem, wg, mu, firstErr, pc, raw, sr, err, cause, writes>>

vars == <<evPc, evResult, evRules, evDefault, evStatus,
          cfg, opts, ctxDone, mainPc, todo, concurrency, result, retErr,
          sem, wg, mu, firstErr, pc, raw, sr, err, cause, writes,
          prPc, prKind, prOutcome, prResult,
          plPc, plRequested, plNumCPU, plSize,
          toPc, toKind, toConfigured, toDeadline,
          slPc, slOpts, slSlot, slOutcome, slMade, slResult, slSink,
          tmN, tmK, tmD, tmState, tmLeft, tmClock,
          paPc, paInput, paCfg, paErr>>

----------------------------------------------------------------------------
(* Bounds *)

MaxRules == 2

\* Generate steps plus slots of a configuration tree
MaxTasks == 2

----------------------------------------------------------------------------
(* Strings, strconv.Itoa and the regexp subset the rules use *)

NilErr == "nil"

Digits == <<"0", "1", "2", "3", "4", "5", "6", "7", "8", "9">>

IsDigit(c) == \E i \in 1..10 : Digits[i] = c

RECURSIVE ItoaNat(_)
ItoaNat(n) == IF n < 10 THEN <<Digits[n + 1]>>
              ELSE Append(ItoaNat(n \div 10), Digits[(n % 10) + 1])

Itoa(n) == IF n < 0 THEN <<"-">> \o ItoaNat(0 - n) ELSE ItoaNat(n)

\* One regexp token against one character: \d is the digit class, . any
\* character, anything else a literal.
TokMatch(tok, c) ==
    IF tok = "\\d" THEN IsDigit(c)
    ELSE IF tok = "." THEN TRUE
    ELSE tok = c

\* regexp.Compile fails on an unclosed group.
Compiles(pattern) == \A i \in 1..Len(pattern) : pattern[i] # "("

\* (*Regexp).MatchString: the pattern is searched anywhere in s.
MatchString(re, s) ==
    \E off \in 0..(Len(s) - Len(re)) :
        \A i \in 1..Len(re) : TokMatch(re[i], s[off + i])

----------------------------------------------------------------------------
(* internal/evaluator *)

BuiltinErrorStatus == [ID |-> "error", Label |-> "bolt"]

\* matchCode without the regex form
matchCodeNoRegex(code, mv) == mv.Exact # <<>> /\ code = mv.Exact[1]

matchCode(code, mv) ==
    IF mv.Exact # <<>> THEN code = mv.Exact[1]
    ELSE IF mv.Regex # <<>> THEN MatchString(mv.Regex[1], Itoa(code))
    ELSE FALSE

matchOutput(output, pattern) ==
    IF ~Compiles(pattern) THEN FALSE
    ELSE MatchString(pattern, output)

\* matchesRule without the execution-error gate
matchesRuleIgnoringErr(res, match) ==
    IF match.Code # <<>> /\ ~matchCode(res.Code, match.Code[1]) THEN FALSE
    ELSE IF match.Output # <<>> /\ ~matchOutput(res.Output, match.Output) THEN FALSE
    ELSE TRUE

\* matchesRule accepting a rule as soon as one of its conditions holds
matchesRuleAny(res, match) ==
    IF res.Err # NilErr
    THEN match.Code = <<>> /\ match.Output = <<>>
    ELSE IF match.Code = <<>> /\ match.Output = <<>> THEN TRUE
    ELSE \/ match.Code # <<>> /\ matchCode(res.Code, match.Code[1])
         \/ match.Output # <<>> /\ matchOutput(res.Output, match.Output)

matchesRule(res, match) ==
    IF res.Err # NilErr
    THEN match.Code = <<>> /\ match.Output = <<>>
    ELSE IF match.Code # <<>> /\ ~matchCode(res.Code, match.Code[1]) THEN FALSE
    ELSE IF match.Output # <<>> /\ ~matchOutput(res.Output, match.Output) THEN FALSE
    ELSE TRUE

\* Evaluate letting a later matching rule override an earlier one
RECURSIVE EvaluateFromLast(_, _, _, _)
EvaluateFromLast(res, rules, defaultStatus, i) ==
    IF i > Len(rules)
    THEN IF defaultStatus # <<>> THEN defaultStatus[1] ELSE BuiltinErrorStatus
    ELSE IF /\ matchesRule(res, rules[i].Match)
            /\ \A j \in (i + 1)..Len(rules) : ~matchesRule(res, rules[j].Match)
         THEN rules[i].Status
    ELSE EvaluateFromLast(res, rules, defaultStatus, i + 1)

\* Evaluate using the builtin status only for execution errors
RECURSIVE EvaluateFromErrOnly(_, _, _, _)
EvaluateFromErrOnly(res, rules, defaultStatus, i) ==
    IF i > Len(rules)
    THEN IF res.Err # NilErr THEN BuiltinErrorStatus
         ELSE IF defaultStatus # <<>> THEN defaultStatus[1]
         ELSE [ID |-> "", Label |-> ""]
    ELSE IF matchesRule(res, rules[i].Match) THEN rules[i].Status
    ELSE EvaluateFromErrOnly(res, rules, defaultStatus, i + 1)

RECURSIVE EvaluateFrom(_, _, _, _)
EvaluateFrom(res, rules, defaultStatus, i) ==
    IF i > Len(rules)
    THEN IF defaultStatus # <<>> THEN defaultStatus[1]
         ELSE IF res.Err # NilErr THEN BuiltinErrorStatus
         ELSE BuiltinErrorStatus
    ELSE IF matchesRule(res, rules[i].Match) THEN rules[i].Status
    ELSE EvaluateFrom(res, rules, defaultStatus, i + 1)

\* Evaluate called without the slot's default status
EvaluateIgnoringDefault(res, rules, defaultStatus) == EvaluateFrom(res, rules, <<>>, 1)

Evaluate(res, rules, defaultStatus) == EvaluateFrom(res, rules, defaultStatus, 1)

----------------------------------------------------------------------------
(* Inputs of the evaluator *)

ZeroStatus == [ID |-> "", Label |-> ""]

StatusOk == [ID |-> "ok", Label |-> "up"]
StatusDown == [ID |-> "down", Label |-> "dn"]
StatusUnknown == [ID |-> "unknown", Label |-> "?"]

ExactCode(n) == <<[Exact |-> <<n>>, Regex |-> <<>>]>>
RegexCode(re) == <<[Exact |-> <<>>, Regex |-> <<re>>]>>

\* no code condition, exact 0, regex 5\d\d, and a MatchValue with neither form
CodeConds == {<<>>, ExactCode(0), RegexCode(<<"5", "\\d", "\\d">>),
              <<[Exact |-> <<>>, Regex |-> <<>>]>>}

\* no output condition, the pattern a, and a pattern that does not compile
OutputConds == {<<>>, <<"a">>, <<"(">>}

EvMatches == [Code : CodeConds, Output : OutputConds]

EvRule == [Match : EvMatches, Status : {StatusOk, StatusDown}]

SeqsUpTo(S, n) == UNION {[1..k -> S] : k \in 0..n}

EvRuleLists == SeqsUpTo(EvRule, MaxRules)

EvResults == [Code : {0, 200, 503},
              Output : {<<"a">>, <<"b">>, <<"b", "a">>},
              Err : {NilErr, "performing request"}]

EvDefaults == {<<>>, <<StatusUnknown>>}

----------------------------------------------------------------------------
(* internal/config: the configuration tree handed to the runner *)

\* rules on the code: 5xx is down, 0 is ok
RulesByCode ==
    <<[Match |-> [Code |-> RegexCode(<<"5", "\\d", "\\d">>), Output |-> <<>>],
       Status |-> StatusDown],
      [Match |-> [Code |-> ExactCode(0), Output |-> <<>>], Status |-> StatusOk]>>

\* an output rule followed by a catch-all
RulesCatchAll ==
    <<[Match |-> [Code |-> <<>>, Output |-> <<"a">>], Status |-> StatusOk],
      [Match |-> [Code |-> <<>>, Output |-> <<>>], Status |-> StatusDown]>>

\* The check, rules and default status a slot can have. "ftp" is a kind the
\* probe factory does not know (a tree built without config.Parse).
SlotChoices ==
    <<[Type |-> "http", Rules |-> RulesByCode, DefaultStatus |-> <<>>],
      [Type |-> "command", Rules |-> RulesByCode, DefaultStatus |-> <<StatusUnknown>>],
      [Type |-> "ftp", Rules |-> RulesCatchAll, DefaultStatus |-> <<>>],
      [Type |-> "http", Rules |-> RulesCatchAll, DefaultStatus |-> <<>>],
      [Type |-> "ftp", Rules |-> RulesCatchAll, DefaultStatus |-> <<StatusUnknown>>]>>

GroupNames == <<"g1", "g2", "g3", "g4">>
TileNames == <<"t1", "t2", "t3", "t4">>
SlotNames == <<"s1", "s2", "s3", "s4">>

\* A tile shape is whether it has a Generate step and how many slots it has;
\* its cost is the number of goroutines Run starts for it. Every tile drawn
\* has a Generate step or a slot.
TileCost(shape) == (IF shape.gen THEN 1 ELSE 0) + shape.slots

TileShapes(budget) ==
    {sh \in [gen : BOOLEAN, slots : 0..budget] :
        TileCost(sh) > 0 /\ TileCost(sh) <= budget}

\* sequences of 1..n tile shapes whose tasks fit the budget
RECURSIVE TileShapeSeqs(_, _)
TileShapeSeqs(n, budget) ==
    IF n = 0 THEN {}
    ELSE UNION {{<<sh>>} \cup {<<sh>> \o rest :
                                  rest \in TileShapeSeqs(n - 1, budget - TileCost(sh))}
                : sh \in TileShapes(budget)}

RECURSIVE SumCost(_)
SumCost(tiles) == IF tiles = <<>> THEN 0 ELSE TileCost(Head(tiles)) + SumCost(Tail(tiles))

\* sequences of groups, each with at least one tile, within the budget
RECURSIVE GroupShapeSeqs(_)
GroupShapeSeqs(budget) ==
    IF budget = 0 THEN {}
    ELSE UNION {{<<g>>} \cup {<<g>> \o rest :
                                 rest \in GroupShapeSeqs(budget - SumCost(g))}
                : g \in TileShapeSeqs(budget, budget)}

Shapes == GroupShapeSeqs(MaxTasks)

\* number of slots before tile (gi, ti) in declaration order
RECURSIVE SlotsBefore(_, _, _)
SlotsBefore(shape, gi, ti) ==
    IF ti > 1 THEN shape[gi][ti - 1].slots + SlotsBefore(shape, gi, ti - 1)
    ELSE IF gi > 1 THEN SlotsBefore(shape, gi - 1, Len(shape[gi - 1]) + 1)
    ELSE 0

\* The tree of a shape; the slots take their choices in rotation from `first`.
MkSlot(shape, first, gi, ti, si) ==
    LET ch == SlotChoices[((first + SlotsBefore(shape, gi, ti) + si - 2)
                              % Len(SlotChoices)) + 1]
    IN [Name |-> SlotNames[si],
        Check |-> [Type |-> ch.Type, Target |-> "target", Timeout |-> 0],
        Rules |-> ch.Rules,
        DefaultStatus |-> ch.DefaultStatus]

MkTile(shape, first, gi, ti) ==
    [Name |-> TileNames[ti],
     Display |-> "icon",
     Link |-> "",
     Generate |-> IF shape[gi][ti].gen
                  THEN <<[Command |-> "make-banner", Timeout |-> 0]>> ELSE <<>>,
     Slots |-> [si \in 1..shape[gi][ti].slots |-> MkSlot(shape, first, gi, ti, si)]]

MkConfig(shape, first) ==
    [Title |-> "home",
     Theme |-> "dark",
     Groups |-> [gi \in 1..Len(shape) |->
                    [Name |-> GroupNames[gi],
                     Tiles |-> [ti \in 1..Len(shape[gi]) |-> MkTile(shape, first, gi, ti)]]]]

Configs == {MkConfig(shape, first) : shape \in Shapes, first \in 1..Len(SlotChoices)}

----------------------------------------------------------------------------
(* internal/checker: the probes *)

Space == " "
Newline == "\n"

IsSpace(c) == c = Space \/ c = Newline

RECURSIVE TrimLeft(_)
TrimLeft(s) == IF s # <<>> /\ IsSpace(Head(s)) THEN TrimLeft(Tail(s)) ELSE s

RECURSIVE TrimRight(_)
TrimRight(s) ==
    IF s # <<>> /\ IsSpace(s[Len(s)]) THEN TrimRight(SubSeq(s, 1, Len(s) - 1)) ELSE s

TrimSpace(s) == TrimRight(TrimLeft(s))

CheckResult(code, output, e) == [Code |-> code, Output |-> output, Err |-> e]

\* seconds
defaultTimeout == 30

\* NewChecker: the timeout the checker gets
CheckTimeout(timeout) == IF timeout = 0 THEN defaultTimeout ELSE timeout

\* NewChecker knowing the network probe only
NewCheckerHTTPOnly(checkType, target, timeout) ==
    IF checkType = "http"
    THEN [chk |-> <<[kind |-> "http", URL |-> target, Timeout |-> CheckTimeout(timeout)]>>,
          err |-> NilErr]
    ELSE [chk |-> <<>>, err |-> "unknown check type"]

\* NewChecker: the checker for a check type, or an error.
NewChecker(checkType, target, timeout) ==
    LET t == CheckTimeout(timeout)
    IN IF checkType = "http"
       THEN [chk |-> <<[kind |-> "http", URL |-> target, Timeout |-> t]>>, err |-> NilErr]
       ELSE IF checkType = "command"
       THEN [chk |-> <<[kind |-> "command", Command |-> target, Timeout |-> t]>>,
             err |-> NilErr]
       ELSE [chk |-> <<>>, err |-> "unknown check type"]

\* What the network can do to one GET: a response, or no response ("doerr").
\* cause tells why a failure happened: "cancel" for the external context,
\* "none" for anything else (refused connection, the probe's own timeout).
HTTPOutcomes(cancelled) ==
    {[kind |-> "response", status |-> 200, body |-> <<"a">>, cause |-> "none"],
     [kind |-> "response", status |-> 503, body |-> <<>>, cause |-> "none"],
     [kind |-> "doerr", status |-> 0, body |-> <<>>, cause |-> "none"]}
    \cup (IF cancelled
          THEN {[kind |-> "doerr", status |-> 0, body |-> <<>>, cause |-> "cancel"]}
          ELSE {})

\* HTTPCheck reporting a 4xx or 5xx response as an execution error
HTTPCheckStatusIsError(o) ==
    IF o.kind = "response" /\ o.status < 400 THEN CheckResult(o.status, o.body, NilErr)
    ELSE CheckResult(o.status, <<>>, "performing request")

\* HTTPChecker.Check on one outcome of the request
HTTPCheck(o) ==
    IF o.kind = "badurl" THEN CheckResult(0, <<>>, "creating request")
    ELSE IF o.kind = "doerr" THEN CheckResult(0, <<>>, "performing request")
    ELSE IF o.kind = "bodyerr" THEN CheckResult(o.status, <<>>, "reading response body")
    ELSE CheckResult(o.status, o.body, NilErr)

\* What cmd.Run can report for sh -c: the shell exited with a code ("exit":
\* nil for 0, an ExitError otherwise), the shell was killed by a signal
\* ("signaled": an ExitError whose ExitCode() is -1), or the shell could not
\* be started ("starterr": an error that is no ExitError).
CommandOutcomes(cancelled) ==
    {[kind |-> "exit", code |-> 0, stdout |-> <<"a", Newline>>, stderr |-> <<>>,
      cause |-> "none"],
     [kind |-> "exit", code |-> 2, stdout |-> <<>>, stderr |-> <<"b">>, cause |-> "none"],
     [kind |-> "starterr", code |-> 0, stdout |-> <<>>, stderr |-> <<>>, cause |-> "none"]}
    \cup (IF cancelled
          THEN {[kind |-> "signaled", code |-> -1, stdout |-> <<>>, stderr |-> <<>>,
                 cause |-> "cancel"]}
          ELSE {})

\* the error cmd.Run returns and the ExitCode() of its ExitError
RunError(o) ==
    IF o.kind = "exit" /\ o.code = 0 THEN NilErr
    ELSE IF o.kind \in {"exit", "signaled"} THEN "ExitError"
    ELSE "other"

\* an ExitCode() that reports a signal's kill as the exit status 0
ExitCodeOfKillIsZero(o) == IF o.kind = "signaled" THEN 0 ELSE o.code

ExitCode(o) == IF o.kind = "signaled" THEN -1 ELSE o.code

\* CommandCheck reporting every error of cmd.Run as an execution error
CommandCheckExitIsError(o) ==
    IF RunError(o) # NilErr
    THEN CheckResult(-1, TrimSpace(o.stdout \o o.stderr), "executing command")
    ELSE CheckResult(0, TrimSpace(o.stdout), NilErr)

\* CommandChecker.Check on one outcome of cmd.Run
CommandCheck(o) ==
    LET exitCode == IF RunError(o) = "ExitError" THEN ExitCode(o) ELSE 0
        out == IF o.stderr # <<>>
               THEN IF o.stdout # <<>> THEN o.stdout \o <<Newline>> \o o.stderr
                    ELSE o.stderr
               ELSE o.stdout
    IN IF RunError(o) = "other"
       THEN CheckResult(-1, TrimSpace(o.stdout \o o.stderr), "executing command")
       ELSE CheckResult(exitCode, TrimSpace(out), NilErr)

\* A probe started on a context that is already done fails at once: the
\* transport refuses the request, cmd.Start returns the context's error.
HTTPCancelledAtStart ==
    [kind |-> "doerr", status |-> 0, body |-> <<>>, cause |-> "cancel"]

CommandCancelledAtStart ==
    [kind |-> "starterr", code |-> 0, stdout |-> <<>>, stderr |-> <<>>, cause |-> "cancel"]

Outcomes(kind, cancelled) ==
    IF kind = "http" THEN HTTPOutcomes(cancelled) ELSE CommandOutcomes(cancelled)

OutcomeAtStart(kind) ==
    IF kind = "http" THEN HTTPCancelledAtStart ELSE CommandCancelledAtStart

Check(kind, o) == IF kind = "http" THEN HTTPCheck(o) ELSE CommandCheck(o)

----------------------------------------------------------------------------
(* internal/runner *)

NumCPUs == {1}

ConcurrencyOpts == {0, 2}

RECURSIVE Concat(_)
Concat(ss) == IF ss = <<>> THEN <<>> ELSE Head(ss) \o Concat(Tail(ss))

Step(op, gi, ti, si) == [op |-> op, gi |-> gi, ti |-> ti, si |-> si]

\* The iterations of Run's nested loops, in order.
TileSteps(c, gi, ti) ==
    LET tile == c.Groups[gi].Tiles[ti]
    IN <<Step("tile", gi, ti, 0)>>
       \o (IF tile.Generate # <<>> THEN <<Step("generate", gi, ti, 0)>> ELSE <<>>)
       \o [si \in 1..Len(tile.Slots) |-> Step("slot", gi, ti, si)]

GroupSteps(c, gi) ==
    <<Step("group", gi, 0, 0)>>
    \o Concat([ti \in 1..Len(c.Groups[gi].Tiles) |-> TileSteps(c, gi, ti)])

Steps(c) == Concat([gi \in 1..Len(c.Groups) |-> GroupSteps(c, gi)])

\* The goroutines Run starts: <<gi, ti, 0>> runs the Generate step of a tile,
\* <<gi, ti, si>> the check of a slot.
TaskIds(c) ==
    {<<st.gi, st.ti, st.si>> :
        st \in {Steps(c)[i] : i \in {j \in 1..Len(Steps(c)) :
                                        Steps(c)[j].op \in {"generate", "slot"}}}}

Leaves(c) == {t \in TaskIds(c) : t[3] > 0}

IsSlotTask(t) == t[3] > 0

SlotOf(t) == cfg.Groups[t[1]].Tiles[t[2]].Slots[t[3]]

ZeroSlotResult == [Name |-> "", Status |-> ZeroStatus, Output |-> <<>>]

ZeroTileResult == [Name |-> "", Display |-> "", Link |-> "", Slots |-> <<>>]

ZeroGroupResult == [Name |-> "", Tiles |-> <<>>]

NoResult == [Title |-> "", Theme |-> "", Groups |-> <<>>]

\* make([]T, n)
Make(zero, n) == [i \in 1..n |-> zero]

\* the pool size without the clamp on the number of CPUs
PoolSizeUnclamped(requested, numCPU) == IF requested <= 0 THEN numCPU ELSE requested

\* The pool size Run computes from the options and the number of CPUs.
PoolSize(requested, numCPU) ==
    IF requested <= 0
    THEN IF numCPU > 16 THEN 16 ELSE IF numCPU < 1 THEN 1 ELSE numCPU
    ELSE requested

\* runSlot evaluating the rules when the probe factory failed
RunSlotNoCheckerEvaluates(slot) ==
    [Name |-> slot.Name,
     Status |-> Evaluate(CheckResult(0, <<>>, "unknown check type"), slot.Rules,
                         slot.DefaultStatus),
     Output |-> <<>>]

\* runSlot up to the call of Check: the failure of the probe factory
RunSlotNoChecker(slot) ==
    [Name |-> slot.Name,
     Status |-> IF slot.DefaultStatus # <<>> THEN slot.DefaultStatus[1]
                ELSE BuiltinErrorStatus,
     Output |-> <<>>]

\* runSlot resolving a result with an execution error by itself
RunSlotCheckedOwnErrorStatus(slot, res) ==
    [Name |-> slot.Name,
     Status |-> IF res.Err # NilErr THEN BuiltinErrorStatus
                ELSE Evaluate(res, slot.Rules, slot.DefaultStatus),
     Output |-> IF res.Err # NilErr THEN <<>> ELSE res.Output]

\* runSlot after Check returned res
RunSlotChecked(slot, res) ==
    [Name |-> slot.Name,
     Status |-> Evaluate(res, slot.Rules, slot.DefaultStatus),
     Output |-> res.Output]

RunnerIdle ==
    /\ cfg = MkConfig(<<<<[gen |-> TRUE, slots |-> 0]>>>>, 1)
    /\ opts = [Concurrency |-> 0]
    /\ ctxDone = FALSE
    /\ mainPc = "off"
    /\ todo = <<>>
    /\ concurrency = 0
    /\ result = NoResult
    /\ retErr = "unset"
    /\ sem = 0
    /\ wg = 0
    /\ mu = <<>>
    /\ firstErr = NilErr
    /\ pc = <<>>
    /\ raw = <<>>
    /\ sr = <<>>
    /\ err = <<>>
    /\ cause = <<>>
    /\ writes = <<>>

EvalIdle ==
    /\ evPc = "off"
    /\ evResult = CheckResult(0, <<>>, NilErr)
    /\ evRules = <<>>
    /\ evDefault = <<>>
    /\ evStatus = ZeroStatus

ProbeIdle ==
    /\ prPc = "off"
    /\ prKind = ""
    /\ prOutcome = [kind |-> "none"]
    /\ prResult = CheckResult(0, <<>>, NilErr)

PoolIdle ==
    /\ plPc = "off"
    /\ plRequested = 0
    /\ plNumCPU = 0
    /\ plSize = 0

TimeoutIdle ==
    /\ toPc = "off"
    /\ toKind = ""
    /\ toConfigured = 0
    /\ toDeadline = [timeout |-> 0, bounded |-> FALSE, after |-> 0]

SlotIdle ==
    /\ slPc = "off"
    /\ slOpts = [Verbose |-> FALSE, Logger |-> "nil"]
    /\ slSlot = <<>>
    /\ slOutcome = [kind |-> "none"]
    /\ slMade = [chk |-> <<>>, err |-> NilErr]
    /\ slResult = ZeroSlotResult
    /\ slSink = <<>>

ClockIdle ==
    /\ tmN = 0
    /\ tmK = 0
    /\ tmD = 0
    /\ tmState = <<>>
    /\ tmLeft = <<>>
    /\ tmClock = 0

ParseIdle ==
    /\ paPc = "off"
    /\ paInput = <<>>
    /\ paCfg = <<>>
    /\ paErr = NilErr

UnitIdle == ProbeIdle /\ PoolIdle /\ TimeoutIdle /\ SlotIdle /\ ClockIdle /\ ParseIdle

Init ==
    /\ EvalIdle
    /\ UnitIdle
    /\ cfg \in Configs
    /\ opts \in [Concurrency : ConcurrencyOpts]
    /\ ctxDone = FALSE
    /\ mainPc = "start"
    /\ todo = <<>>
    /\ concurrency = 0
    /\ result = NoResult
    /\ retErr = "unset"
    /\ sem = 0
    /\ wg = 0
    /\ mu = <<>>
    /\ firstErr = NilErr
    /\ pc = [t \in TaskIds(cfg) |-> "unspawned"]
    /\ raw = [t \in TaskIds(cfg) |-> <<>>]
    /\ sr = [t \in TaskIds(cfg) |-> <<>>]
    /\ err = [t \in TaskIds(cfg) |-> NilErr]
    /\ cause = [t \in TaskIds(cfg) |-> "none"]
    /\ writes = [t \in Leaves(cfg) |-> 0]

\* Run, up to the loops: the pool size, the semaphore, the result's root.
RunStart ==
    /\ mainPc = "start"
    /\ \E numCPU \in NumCPUs : concurrency' = PoolSize(opts.Concurrency, numCPU)
    /\ result' = [Title |-> cfg.Title, Theme |-> cfg.Theme,
                  Groups |-> Make(ZeroGroupResult, Len(cfg.Groups))]
    /\ mainPc' = "loop"
    /\ todo' = Steps(cfg)
    /\ UNCHANGED <<evVars, unitVars, inVars, ctxDone, retErr, sharedVars, taskVars, writes>>

AtStep(op) ==
    /\ mainPc = "loop"
    /\ todo # <<>>
    /\ Head(todo).op = op

\* the head of the loop over the groups
MainGroup ==
    /\ AtStep("group")
    /\ LET gi == Head(todo).gi
           group == cfg.Groups[gi]
       IN result' = [result EXCEPT !.Groups[gi] =
                        [Name |-> group.Name,
                         Tiles |-> Make(ZeroTileResult, Len(group.Tiles))]]
    /\ todo' = Tail(todo)
    /\ UNCHANGED <<evVars, unitVars, inVars, ctxDone, mainPc, concurrency, retErr,
                   sharedVars, taskVars, writes>>

\* MainTile allocating one slot result too many
MainTileExtraSlot ==
    /\ AtStep("tile")
    /\ LET gi == Head(todo).gi
           ti == Head(todo).ti
           tile == cfg.Groups[gi].Tiles[ti]
       IN result' = [result EXCEPT !.Groups[gi].Tiles[ti] =
                        [Name |-> tile.Name, Display |-> tile.Display,
                         Link |-> tile.Link,
                         Slots |-> Make(ZeroSlotResult, Len(tile.Slots) + 1)]]
    /\ todo' = Tail(todo)
    /\ UNCHANGED <<evVars, unitVars, inVars, ctxDone, mainPc, concurrency, retErr,
                   sharedVars, taskVars, writes>>

\* the head of the loop over the tiles of a group
MainTile ==
    /\ AtStep("tile")
    /\ LET gi == Head(todo).gi
           ti == Head(todo).ti
           tile == cfg.Groups[gi].Tiles[ti]
       IN result' = [result EXCEPT !.Groups[gi].Tiles[ti] =
                        [Name |-> tile.Name, Display |-> tile.Display,
                         Link |-> tile.Link,
                         Slots |-> Make(ZeroSlotResult, Len(tile.Slots))]]
    /\ todo' = Tail(todo)
    /\ UNCHANGED <<evVars, unitVars, inVars, ctxDone, mainPc, concurrency, retErr,
                   sharedVars, taskVars, writes>>

\* wg.Add(1); go func() { ... }() for the tile's Generate step
SpawnGenerate ==
    /\ AtStep("generate")
    /\ pc' = [pc EXCEPT ![<<Head(todo).gi, Head(todo).ti, 0>>] = "wait"]
    /\ wg' = wg + 1
    /\ todo' = Tail(todo)
    /\ UNCHANGED <<evVars, unitVars, inVars, ctxDone, mainPc, concurrency, result, retErr,
                   sem, mu, firstErr, raw, sr, err, cause, writes>>

\* wg.Add(1); go func() { ... }() for one slot
SpawnSlot ==
    /\ AtStep("slot")
    /\ pc' = [pc EXCEPT ![<<Head(todo).gi, Head(todo).ti, Head(todo).si>>] = "wait"]
    /\ wg' = wg + 1
    /\ todo' = Tail(todo)
    /\ UNCHANGED <<evVars, unitVars, inVars, ctxDone, mainPc, concurrency, result, retErr,
                   sem, mu, firstErr, raw, sr, err, cause, writes>>

\* Run returning without waiting for the goroutines
WaitReturnNoWait ==
    /\ mainPc = "loop"
    /\ todo = <<>>
    /\ mainPc' = "returned"
    /\ retErr' = NilErr
    /\ UNCHANGED <<evVars, unitVars, inVars, ctxDone, todo, concurrency, result,
                   sharedVars, taskVars, writes>>

\* Run returning the first Generate error
WaitReturnFirstErr ==
    /\ mainPc = "loop"
    /\ todo = <<>>
    /\ wg = 0
    /\ mainPc' = "returned"
    /\ retErr' = firstErr
    /\ UNCHANGED <<evVars, unitVars, inVars, ctxDone, todo, concurrency, result,
                   sharedVars, taskVars, writes>>

\* wg.Wait() and the return
WaitReturn ==
    /\ mainPc = "loop"
    /\ todo = <<>>
    /\ wg = 0
    /\ mainPc' = "returned"
    /\ retErr' = NilErr
    /\ UNCHANGED <<evVars, unitVars, inVars, ctxDone, todo, concurrency, result,
                   sharedVars, taskVars, writes>>

\* a send on the channel that never blocks
AcquirePermitUnbounded(t) ==
    /\ pc[t] = "wait"
    /\ sem' = sem + 1

\* a slot goroutine taking its permit only after the Generate step of its
\* tile has ended
AcquirePermitAfterGenerate(t) ==
    /\ pc[t] = "wait"
    /\ sem < concurrency
    /\ (t[3] > 0 /\ <<t[1], t[2], 0>> \in DOMAIN pc)
          => pc[<<t[1], t[2], 0>>] \in {"finished", "released", "done"}
    /\ sem' = sem + 1

\* sem <- struct{}{}: blocks while the channel holds `concurrency` elements
AcquirePermit(t) ==
    /\ pc[t] = "wait"
    /\ sem < concurrency
    /\ sem' = sem + 1

\* A slot goroutine takes a permit and enters runSlot: the probe factory
\* fails, or Check starts (and fails at once on a context already done).
\* When runSlot has its SlotResult it writes its last line to the logger.
SlotAcquire(t) ==
    /\ IsSlotTask(t)
    /\ AcquirePermit(t)
    /\ LET slot == SlotOf(t)
           made == NewChecker(slot.Check.Type, slot.Check.Target, slot.Check.Timeout)
       IN IF made.err # NilErr
          THEN /\ pc' = [pc EXCEPT ![t] = "logging"]
               /\ sr' = [sr EXCEPT ![t] = <<RunSlotNoChecker(slot)>>]
               /\ UNCHANGED <<raw, cause>>
          ELSE IF ctxDone
          THEN LET o == OutcomeAtStart(made.chk[1].kind)
                   res == Check(made.chk[1].kind, o)
               IN /\ pc' = [pc EXCEPT ![t] = "logging"]
                  /\ raw' = [raw EXCEPT ![t] = <<res>>]
                  /\ cause' = [cause EXCEPT ![t] = o.cause]
                  /\ sr' = [sr EXCEPT ![t] = <<RunSlotChecked(slot, res)>>]
          ELSE /\ pc' = [pc EXCEPT ![t] = "inflight"]
               /\ UNCHANGED <<raw, sr, cause>>
    /\ UNCHANGED <<evVars, unitVars, inVars, ctxDone, mainVars, wg, mu, firstErr, err, writes>>

\* Check returns; runSlot evaluates the result and starts to write the
\* "[result]" line to the logger.
SlotCheckEnds(t) ==
    /\ IsSlotTask(t)
    /\ pc[t] = "inflight"
    /\ LET slot == SlotOf(t)
       IN \E o \in Outcomes(slot.Check.Type, ctxDone) :
             LET res == Check(slot.Check.Type, o)
             IN /\ raw' = [raw EXCEPT ![t] = <<res>>]
                /\ cause' = [cause EXCEPT ![t] = o.cause]
                /\ sr' = [sr EXCEPT ![t] = <<RunSlotChecked(slot, res)>>]
    /\ pc' = [pc EXCEPT ![t] = "logging"]
    /\ UNCHANGED <<evVars, unitVars, inVars, ctxDone, mainVars, sharedVars, err, writes>>

\* fmt.Fprintf(logger, ...) returns and runSlot returns the SlotResult. The
\* logger is the one io.Writer of Options, handed to every goroutine, and no
\* lock is held around the call.
LogResult(t) ==
    /\ IsSlotTask(t)
    /\ pc[t] = "logging"
    /\ pc' = [pc EXCEPT ![t] = "ran"]
    /\ UNCHANGED <<evVars, unitVars, inVars, ctxDone, mainVars, sharedVars,
                   raw, sr, err, cause, writes>>

\* mu.Lock() returning while another goroutine holds the mutex
LockNoMutex(t) ==
    /\ pc[t] = "ran"
    /\ mu' = <<t>>
    /\ pc' = [pc EXCEPT ![t] = "locked"]
    /\ UNCHANGED <<evVars, unitVars, inVars, ctxDone, mainVars, sem, wg, firstErr,
                   raw, sr, err, cause, writes>>

\* mu.Lock()
Lock(t) ==
    /\ pc[t] = "ran"
    /\ mu = <<>>
    /\ mu' = <<t>>
    /\ pc' = [pc EXCEPT ![t] = "locked"]
    /\ UNCHANGED <<evVars, unitVars, inVars, ctxDone, mainVars, sem, wg, firstErr,
                   raw, sr, err, cause, writes>>

\* SlotWrite with the loop variable si shared by the goroutines of a tile:
\* every goroutine writes the last slot
SlotWriteSharedIndex(t) ==
    /\ IsSlotTask(t)
    /\ pc[t] = "locked"
    /\ LET last == Len(cfg.Groups[t[1]].Tiles[t[2]].Slots)
       IN /\ result' = [result EXCEPT !.Groups[t[1]].Tiles[t[2]].Slots[last] = sr[t][1]]
          /\ writes' = [writes EXCEPT ![<<t[1], t[2], last>>] = @ + 1]
    /\ mu' = <<>>
    /\ pc' = [pc EXCEPT ![t] = "finished"]
    /\ raw' = [raw EXCEPT ![t] = <<>>]
    /\ sr' = [sr EXCEPT ![t] = <<>>]
    /\ cause' = [cause EXCEPT ![t] = "none"]
    /\ UNCHANGED <<evVars, unitVars, inVars, ctxDone, mainPc, todo, concurrency, retErr,
                   sem, wg, firstErr, err>>

\* result.Groups[gi].Tiles[ti].Slots[si] = sr; mu.Unlock()
SlotWrite(t) ==
    /\ IsSlotTask(t)
    /\ pc[t] = "locked"
    /\ result' = [result EXCEPT !.Groups[t[1]].Tiles[t[2]].Slots[t[3]] = sr[t][1]]
    /\ writes' = [writes EXCEPT ![t] = @ + 1]
    /\ mu' = <<>>
    /\ pc' = [pc EXCEPT ![t] = "finished"]
    /\ raw' = [raw EXCEPT ![t] = <<>>]
    /\ sr' = [sr EXCEPT ![t] = <<>>]
    /\ cause' = [cause EXCEPT ![t] = "none"]
    /\ UNCHANGED <<evVars, unitVars, inVars, ctxDone, mainPc, todo, concurrency, retErr,
                   sem, wg, firstErr, err>>

\* a runGenerate that stores the default timeout of 60 s through its
\* *config.Generate
GenerateAcquireStoresTimeout(t) ==
    /\ ~IsSlotTask(t)
    /\ AcquirePermit(t)
    /\ cfg' = [cfg EXCEPT !.Groups[t[1]].Tiles[t[2]].Generate[1].Timeout = 60]
    /\ IF ctxDone
       THEN /\ pc' = [pc EXCEPT ![t] = "ran"]
            /\ err' = [err EXCEPT ![t] = "command failed"]
       ELSE /\ pc' = [pc EXCEPT ![t] = "inflight"]
            /\ UNCHANGED err
    /\ UNCHANGED <<evVars, unitVars, opts, ctxDone, mainVars, wg, mu, firstErr,
                   raw, sr, cause, writes>>

\* A Generate goroutine takes a permit and runs the command, which fails at
\* once on a context already done.
GenerateAcquire(t) ==
    /\ ~IsSlotTask(t)
    /\ AcquirePermit(t)
    /\ IF ctxDone
       THEN /\ pc' = [pc EXCEPT ![t] = "ran"]
            /\ err' = [err EXCEPT ![t] = "command failed"]
       ELSE /\ pc' = [pc EXCEPT ![t] = "inflight"]
            /\ UNCHANGED err
    /\ UNCHANGED <<evVars, unitVars, inVars, ctxDone, mainVars, wg, mu, firstErr,
                   raw, sr, cause, writes>>

\* runGenerate returns: nil, or the command's error
GenerateEnds(t) ==
    /\ ~IsSlotTask(t)
    /\ pc[t] = "inflight"
    /\ \E ok \in BOOLEAN :
          IF ok
          THEN /\ pc' = [pc EXCEPT ![t] = "finished"]
               /\ UNCHANGED err
          ELSE /\ pc' = [pc EXCEPT ![t] = "ran"]
               /\ err' = [err EXCEPT ![t] = "command failed"]
    /\ UNCHANGED <<evVars, unitVars, inVars, ctxDone, mainVars, sharedVars, raw, sr, cause, writes>>

\* a failing Generate goroutine that ends without receiving from the channel
GenerateRecordKeepsPermit(t) ==
    /\ ~IsSlotTask(t)
    /\ pc[t] = "locked"
    /\ firstErr' = IF firstErr = NilErr THEN err[t] ELSE firstErr
    /\ mu' = <<>>
    /\ pc' = [pc EXCEPT ![t] = "released"]
    /\ err' = [err EXCEPT ![t] = NilErr]
    /\ UNCHANGED <<evVars, unitVars, inVars, ctxDone, mainVars, sem, wg, raw, sr, cause, writes>>

\* if firstErr == nil { firstErr = err }; mu.Unlock()
GenerateRecord(t) ==
    /\ ~IsSlotTask(t)
    /\ pc[t] = "locked"
    /\ firstErr' = IF firstErr = NilErr THEN err[t] ELSE firstErr
    /\ mu' = <<>>
    /\ pc' = [pc EXCEPT ![t] = "finished"]
    /\ err' = [err EXCEPT ![t] = NilErr]
    /\ UNCHANGED <<evVars, unitVars, inVars, ctxDone, mainVars, sem, wg, raw, sr, cause, writes>>

\* a goroutine that ends without receiving from the channel
ReleaseKeepsPermit(t) ==
    /\ pc[t] = "finished"
    /\ pc' = [pc EXCEPT ![t] = "released"]
    /\ UNCHANGED <<evVars, unitVars, inVars, ctxDone, mainVars, sharedVars,
                   raw, sr, err, cause, writes>>

\* the deferred <-sem
Release(t) ==
    /\ pc[t] = "finished"
    /\ sem' = sem - 1
    /\ pc' = [pc EXCEPT ![t] = "released"]
    /\ UNCHANGED <<evVars, unitVars, inVars, ctxDone, mainVars, wg, mu, firstErr,
                   raw, sr, err, cause, writes>>

\* the deferred wg.Done()
Done(t) ==
    /\ pc[t] = "released"
    /\ wg' = wg - 1
    /\ pc' = [pc EXCEPT ![t] = "done"]
    /\ UNCHANGED <<evVars, unitVars, inVars, ctxDone, mainVars, sem, mu, firstErr,
                   raw, sr, err, cause, writes>>

\* The caller cancels the context, or its deadline passes.
Cancel ==
    /\ mainPc \in {"start", "loop"}
    /\ ~ctxDone
    /\ ctxDone' = TRUE
    /\ UNCHANGED <<evVars, unitVars, inVars, mainVars, sharedVars, taskVars, writes>>

Next ==
    \/ RunStart
    \/ MainGroup
    \/ MainTile
    \/ SpawnGenerate
    \/ SpawnSlot
    \/ WaitReturn
    \/ Cancel
    \/ \E t \in DOMAIN pc : SlotAcquire(t)
    \/ \E t \in DOMAIN pc : SlotCheckEnds(t)
    \/ \E t \in DOMAIN pc : LogResult(t)
    \/ \E t \in DOMAIN pc : Lock(t)
    \/ \E t \in DOMAIN pc : SlotWrite(t)
    \/ \E t \in DOMAIN pc : GenerateAcquire(t)
    \/ \E t \in DOMAIN pc : GenerateEnds(t)
    \/ \E t \in DOMAIN pc : GenerateRecord(t)
    \/ \E t \in DOMAIN pc : Release(t)
    \/ \E t \in DOMAIN pc : Done(t)

Spec == Init /\ [][Next]_vars

\* the steps of Run's own goroutine
MainStep ==
    \/ RunStart
    \/ MainGroup
    \/ MainTile
    \/ SpawnGenerate
    \/ SpawnSlot
    \/ WaitReturn

\* the steps of the goroutines Run starts
TaskStep ==
    \E t \in DOMAIN pc :
        \/ SlotAcquire(t)
        \/ SlotCheckEnds(t)
        \/ LogResult(t)
        \/ Lock(t)
        \/ SlotWrite(t)
        \/ GenerateAcquire(t)
        \/ GenerateEnds(t)
        \/ GenerateRecord(t)
        \/ Release(t)
        \/ Done(t)

\* The Go scheduler: Run's goroutine takes a step when it can, and so does
\* some goroutine that is not blocked. Every probe and Generate command ends
\* (each runs under its timeout), so a goroutine waiting for one is not
\* blocked. Nothing is assumed about the cancellation of the context.
FairSpec == Spec /\ WF_vars(MainStep) /\ WF_vars(TaskStep)

----------------------------------------------------------------------------
(* The evaluator applied to one input *)

InitEval ==
    /\ evPc = "call"
    /\ evResult \in EvResults
    /\ evRules \in EvRuleLists
    /\ evDefault \in EvDefaults
    /\ evStatus = ZeroStatus
    /\ RunnerIdle
    /\ UnitIdle

EvalCall ==
    /\ evPc = "call"
    /\ evStatus' = Evaluate(evResult, evRules, evDefault)
    /\ evPc' = "done"
    /\ UNCHANGED <<evResult, evRules, evDefault>>
    /\ UNCHANGED <<runVars, unitVars>>

NextEval == EvalCall

SpecEval == InitEval /\ [][NextEval]_vars

----------------------------------------------------------------------------
(* The evaluator applied to one rule with a code condition *)

\* HTTP statuses and exit codes: negative, one to four digits, all of 5xx
CodeInputs == {-500, -1, 0, 5, 50, 55, 200, 404, 499, 600, 1500, 5000} \cup (500..599)

CodeRuleConds == {ExactCode(0), ExactCode(200), ExactCode(500),
                  RegexCode(<<"5", "\\d", "\\d">>)}

InitCode ==
    /\ evPc = "call"
    /\ evResult \in [Code : CodeInputs, Output : {<<>>}, Err : {NilErr}]
    /\ evRules \in {<<[Match |-> [Code |-> c, Output |-> <<>>], Status |-> StatusOk]>> :
                       c \in CodeRuleConds}
    /\ evDefault = <<>>
    /\ evStatus = ZeroStatus
    /\ RunnerIdle
    /\ UnitIdle

SpecCode == InitCode /\ [][NextEval]_vars

----------------------------------------------------------------------------
(* One probe applied to one outcome of its request or command *)

HTTPStatuses == {200, 404, 500, 503}

Bodies == {<<>>, <<"a">>, <<"b", "a">>}

\* Everything one GET can come to: the URL does not parse ("badurl"), no
\* response arrives ("doerr": refused, DNS, the client's timeout, the
\* context), the headers arrive but reading the body fails ("bodyerr"), or
\* the whole response arrives.
ProbeHTTPOutcomes ==
    {[kind |-> "badurl", status |-> 0, body |-> <<>>, cause |-> "none"]}
    \cup [kind : {"doerr"}, status : {0}, body : {<<>>},
          cause : {"none", "timeout", "cancel"}]
    \cup [kind : {"bodyerr"}, status : HTTPStatuses, body : {<<>>},
          cause : {"none", "timeout"}]
    \cup [kind : {"response"}, status : HTTPStatuses, body : Bodies, cause : {"none"}]

ExitCodes == {0, 1, 2, 42}

Stdouts == {<<>>, <<"a">>, <<"a", Newline>>}

Stderrs == {<<>>, <<"b">>}

\* Everything sh -c <target> can come to: the command runs and exits with a
\* code; the shell does not find the command and exits with 127, or may not
\* execute it and exits with 126 (it reports either on stderr); the shell
\* is killed on the timeout or the cancellation; the shell itself cannot be
\* started, or the context is done before it is started or as it exits and
\* cmd.Run returns the context's error.
ProbeCommandOutcomes ==
    [kind : {"exit"}, code : ExitCodes, stdout : Stdouts, stderr : Stderrs,
     cause : {"none"}]
    \cup {[kind |-> "exit", code |-> 127, stdout |-> <<>>, stderr |-> <<"b">>,
           cause |-> "notfound"],
          [kind |-> "exit", code |-> 126, stdout |-> <<>>, stderr |-> <<"b">>,
           cause |-> "noperm"]}
    \cup [kind : {"signaled"}, code : {-1}, stdout : Stdouts, stderr : Stderrs,
          cause : {"timeout", "cancel"}]
    \cup [kind : {"starterr"}, code : {0}, stdout : {<<>>}, stderr : {<<>>},
          cause : {"nosh", "cancel", "timeout"}]

ProbeOutcomes(kind) ==
    IF kind = "http" THEN ProbeHTTPOutcomes ELSE ProbeCommandOutcomes

InitProbe ==
    /\ prPc = "call"
    /\ prKind \in {"http", "command"}
    /\ prOutcome \in ProbeOutcomes(prKind)
    /\ prResult = CheckResult(0, <<>>, NilErr)
    /\ EvalIdle
    /\ RunnerIdle
    /\ PoolIdle
    /\ TimeoutIdle
    /\ SlotIdle
    /\ ClockIdle
    /\ ParseIdle

ProbeCall ==
    /\ prPc = "call"
    /\ prResult' = Check(prKind, prOutcome)
    /\ prPc' = "done"
    /\ UNCHANGED <<prKind, prOutcome>>
    /\ UNCHANGED <<evVars, runVars, plVars, toVars, slVars, tmVars, paVars>>

NextProbe == ProbeCall

SpecProbe == InitProbe /\ [][NextProbe]_vars

----------------------------------------------------------------------------
(* The pool size of one run *)

\* Options.Concurrency: unset, negative, small, and above the clamp
Requested == (-2..3) \cup {17, 64}

\* runtime.NumCPU() is at least 1
CPUCounts == 1..18

InitPool ==
    /\ plPc = "call"
    /\ plRequested \in Requested
    /\ plNumCPU \in CPUCounts
    /\ plSize = 0
    /\ EvalIdle
    /\ RunnerIdle
    /\ ProbeIdle
    /\ TimeoutIdle
    /\ SlotIdle
    /\ ClockIdle
    /\ ParseIdle

PoolSizeCall ==
    /\ plPc = "call"
    /\ plSize' = PoolSize(plRequested, plNumCPU)
    /\ plPc' = "done"
    /\ UNCHANGED <<plRequested, plNumCPU>>
    /\ UNCHANGED <<evVars, runVars, prVars, toVars, slVars, tmVars, paVars>>

NextPool == PoolSizeCall

SpecPool == InitPool /\ [][NextPool]_vars

----------------------------------------------------------------------------
(* The deadline of one probe or Generate command; durations in seconds *)

GenerateDefaultTimeout == 60

\* runGenerate: the timeout of the command
GenerateTimeout(timeout) == IF timeout = 0 THEN GenerateDefaultTimeout ELSE timeout

\* context.WithTimeout(ctx, d): the deadline is d after now, in the past
\* when d is negative
WithTimeout(d) == [timeout |-> d, bounded |-> TRUE, after |-> d]

\* http.Client{Timeout: d}: a deadline d after now when d is positive, no
\* deadline otherwise
ClientTimeout(d) ==
    IF d > 0 THEN [timeout |-> d, bounded |-> TRUE, after |-> d]
    ELSE [timeout |-> d, bounded |-> FALSE, after |-> 0]

NoDeadline == [timeout |-> 0, bounded |-> FALSE, after |-> 0]

\* the deadline an operation of Run sets for itself from the configured timeout
OperationDeadline(kind, configured) ==
    IF kind = "http" THEN ClientTimeout(CheckTimeout(configured))
    ELSE IF kind = "command" THEN WithTimeout(CheckTimeout(configured))
    ELSE WithTimeout(GenerateTimeout(configured))

\* what time.ParseDuration accepts: "0s" or nothing, "-2s", "45s", ...
ConfiguredTimeouts == -2..61

InitTimeout ==
    /\ toPc = "call"
    /\ toKind \in {"http", "command", "generate"}
    /\ toConfigured \in ConfiguredTimeouts
    /\ toDeadline = NoDeadline
    /\ EvalIdle
    /\ RunnerIdle
    /\ ProbeIdle
    /\ PoolIdle
    /\ SlotIdle
    /\ ClockIdle
    /\ ParseIdle

TimeoutCall ==
    /\ toPc = "call"
    /\ toDeadline' = OperationDeadline(toKind, toConfigured)
    /\ toPc' = "done"
    /\ UNCHANGED <<toKind, toConfigured>>
    /\ UNCHANGED <<evVars, runVars, prVars, plVars, slVars, tmVars, paVars>>

NextTimeout == TimeoutCall

SpecTimeout == InitTimeout /\ [][NextTimeout]_vars

----------------------------------------------------------------------------
(* runSlot applied to one slot, with the logger Run hands to it *)

\* check kinds: the two config.Parse lets through, and three it rejects (a
\* tree built in code reaches Run without config.Parse)
SlotKinds == {"http", "command", "ftp", "", "HTTP"}

SlotInputs ==
    {[Name |-> "s1",
      Check |-> [Type |-> k, Target |-> "target", Timeout |-> 0],
      Rules |-> r,
      DefaultStatus |-> d] :
        k \in SlotKinds, r \in {RulesByCode, RulesCatchAll}, d \in EvDefaults}

SlotOutcomes(kind) ==
    IF kind \in {"http", "command"} THEN ProbeOutcomes(kind) ELSE {[kind |-> "none"]}

\* Options.Verbose and Options.Logger: nil, or the caller's buffer
LoggerOpts == [Verbose : BOOLEAN, Logger : {"nil", "buf"}]

\* Run: logger := opts.Logger; if logger == nil { logger = io.Discard }
RunLogger(o) == IF o.Logger = "nil" THEN "discard" ELSE o.Logger

\* the lines runSlot writes with fmt.Fprintf(logger, ...), by their tags
RunSlotLines(made, res) ==
    <<"check">>
    \o (IF made.err # NilErr THEN <<"error">>
        ELSE (IF res.Err # NilErr THEN <<"warn">> ELSE <<>>) \o <<"result">>)

\* what the caller's buffer holds after the lines were written to logger
Fprintf(logger, sink, lines) == IF logger = "discard" THEN sink ELSE sink \o lines

InitSlot ==
    /\ slPc = "call"
    /\ slOpts \in LoggerOpts
    /\ slSlot \in SlotInputs
    /\ slOutcome \in SlotOutcomes(slSlot.Check.Type)
    /\ slMade = [chk |-> <<>>, err |-> NilErr]
    /\ slResult = ZeroSlotResult
    /\ slSink = <<>>
    /\ EvalIdle
    /\ RunnerIdle
    /\ ProbeIdle
    /\ PoolIdle
    /\ TimeoutIdle
    /\ ClockIdle
    /\ ParseIdle

\* Run choosing the logger, and runSlot from its first line to its return
RunSlotCall ==
    /\ slPc = "call"
    /\ LET made == NewChecker(slSlot.Check.Type, slSlot.Check.Target,
                              slSlot.Check.Timeout)
           res == IF made.err = NilErr THEN Check(made.chk[1].kind, slOutcome)
                  ELSE CheckResult(0, <<>>, NilErr)
       IN /\ slMade' = made
          /\ slResult' = IF made.err # NilErr THEN RunSlotNoChecker(slSlot)
                         ELSE RunSlotChecked(slSlot, res)
          /\ slSink' = Fprintf(RunLogger(slOpts), slSink, RunSlotLines(made, res))
    /\ slPc' = "done"
    /\ UNCHANGED <<slOpts, slSlot, slOutcome>>
    /\ UNCHANGED <<evVars, runVars, prVars, plVars, toVars, tmVars, paVars>>

NextSlot == RunSlotCall

SpecSlot == InitSlot /\ [][NextSlot]_vars

----------------------------------------------------------------------------
(* Properties of the evaluator (checked under SpecEval) *)

Min(S) == CHOOSE x \in S : \A y \in S : x <= y

MatchingIdx == {i \in 1..Len(evRules) : matchesRule(evResult, evRules[i].Match)}

IsCatchAll(match) == match.Code = <<>> /\ match.Output = <<>>

CatchAllIdx == {i \in 1..Len(evRules) : IsCatchAll(evRules[i].Match)}

\* every condition the Match specifies holds of the result
CondsHold(res, match) ==
    /\ match.Code # <<>> => matchCode(res.Code, match.Code[1])
    /\ match.Output # <<>> => matchOutput(res.Output, match.Output)

CondsHoldIdx == {i \in 1..Len(evRules) : CondsHold(evResult, evRules[i].Match)}

Fallback == IF evDefault # <<>> THEN evDefault[1] ELSE BuiltinErrorStatus

\* C1: first match wins. If any rule matches, the Status returned is the
\* Status of the lowest-index matching rule; of two matching rules with the
\* same Match the first one's Status is returned, and evaluating the swapped
\* list returns the other one's.
FirstMatchWins ==
    evPc = "done" =>
        /\ MatchingIdx # {} => evStatus = evRules[Min(MatchingIdx)].Status
        /\ (/\ Len(evRules) = 2
            /\ evRules[1].Match = evRules[2].Match
            /\ MatchingIdx = {1, 2})
           => /\ evStatus = evRules[1].Status
              /\ Evaluate(evResult, <<evRules[2], evRules[1]>>, evDefault)
                     = evRules[2].Status

FirstMatchWinsWitness ==
    /\ evPc = "done"
    /\ Len(evRules) = 2
    /\ evRules[1].Match = evRules[2].Match
    /\ evRules[1].Status # evRules[2].Status
    /\ MatchingIdx = {1, 2}
    /\ evStatus = evRules[1].Status

\* C2: with an execution error in the result, a rule matches iff its Match
\* has neither a code nor an output condition; every rule with a condition is
\* skipped whatever the code and output are, so the Status returned is that
\* of the first catch-all rule, or the fallback when there is none.
ErrorOnlyCatchAll ==
    (evPc = "done" /\ evResult.Err # NilErr) =>
        /\ \A i \in 1..Len(evRules) :
              matchesRule(evResult, evRules[i].Match) <=> i \in CatchAllIdx
        /\ evStatus = IF CatchAllIdx # {} THEN evRules[Min(CatchAllIdx)].Status
                      ELSE Fallback

ErrorOnlyCatchAllWitness ==
    /\ evPc = "done"
    /\ evResult.Err # NilErr
    /\ evResult.Code = 0
    /\ Len(evRules) = 2
    /\ evRules[1].Match = [Code |-> ExactCode(0), Output |-> <<>>]
    /\ IsCatchAll(evRules[2].Match)
    /\ evRules[1].Status # evRules[2].Status
    /\ evStatus = evRules[2].Status

\* C3: without an execution error, a rule with no condition always matches
\* and a rule with conditions matches iff all of them hold; a rule of which
\* only one of two conditions holds is passed over for the next rule.
AllConditionsMustHold ==
    (evPc = "done" /\ evResult.Err = NilErr) =>
        /\ \A i \in 1..Len(evRules) :
              /\ IsCatchAll(evRules[i].Match) => matchesRule(evResult, evRules[i].Match)
              /\ matchesRule(evResult, evRules[i].Match)
                     <=> CondsHold(evResult, evRules[i].Match)
        /\ evStatus = IF CondsHoldIdx # {} THEN evRules[Min(CondsHoldIdx)].Status
                      ELSE Fallback

AllConditionsMustHoldWitness ==
    /\ evPc = "done"
    /\ evResult.Err = NilErr
    /\ Len(evRules) = 2
    /\ evRules[1].Match.Code # <<>>
    /\ evRules[1].Match.Output # <<>>
    /\ matchCode(evResult.Code, evRules[1].Match.Code[1])
    /\ ~matchOutput(evResult.Output, evRules[1].Match.Output)
    /\ CondsHold(evResult, evRules[2].Match)
    /\ evRules[1].Status # evRules[2].Status
    /\ evStatus = evRules[2].Status

\* C4: when no rule matches (the rule list may be empty) the Status returned
\* is the DefaultStatus if there is one and the builtin "error" status
\* otherwise, with or without an execution error; a Status is always returned.
NoMatchFallsBack ==
    evPc = "done" =>
        /\ MatchingIdx = {} =>
              evStatus = IF evDefault # <<>> THEN evDefault[1]
                         ELSE [ID |-> "error", Label |-> "bolt"]
        /\ evStatus \in {StatusOk, StatusDown, StatusUnknown, BuiltinErrorStatus}
        /\ evStatus # ZeroStatus

NoMatchFallsBackWitness ==
    /\ evPc = "done"
    /\ Len(evRules) > 0
    /\ MatchingIdx = {}
    /\ evResult.Err = NilErr
    /\ evDefault = <<>>
    /\ evStatus.ID = "error"

----------------------------------------------------------------------------
(* Properties of the runner (checked under Spec) *)

Returned == mainPc = "returned"

\* the leaves of the output tree, as it is
ResultLeaves ==
    UNION {UNION {{<<gi, ti, si>> :
                      si \in 1..Len(result.Groups[gi].Tiles[ti].Slots)}
                  : ti \in 1..Len(result.Groups[gi].Tiles)}
           : gi \in 1..Len(result.Groups)}

Leaf(l) == result.Groups[l[1]].Tiles[l[2]].Slots[l[3]]

Working ==
    {t \in DOMAIN pc : pc[t] \in {"inflight", "logging", "ran", "locked", "finished"}}

\* C5: when Run returns, every slot of the output tree has been written
\* exactly once and holds a Status, whatever the probes did (success, code,
\* execution error, unsupported kind) and however the goroutines interleaved;
\* no slot is ever written twice.
EverySlotWrittenOnce ==
    /\ \A l \in DOMAIN writes : writes[l] <= 1
    /\ Returned =>
          /\ ResultLeaves = DOMAIN writes
          /\ \A l \in ResultLeaves :
                /\ writes[l] = 1
                /\ Leaf(l) # ZeroSlotResult
                /\ Leaf(l).Status # ZeroStatus

EverySlotWrittenOnceWitness ==
    /\ Returned
    /\ ctxDone
    /\ \E l1, l2 \in ResultLeaves :
          /\ l1 # l2
          /\ writes[l1] = 1 /\ writes[l2] = 1
          /\ Leaf(l1).Status = BuiltinErrorStatus
          /\ Leaf(l2).Status = StatusOk

\* C6: at most `concurrency` goroutines are between taking a permit and
\* giving it back, Generate steps and slot checks together, and a goroutine
\* runs its probe or command only while the channel holds its permit.
PoolBound ==
    /\ Cardinality(Working) <= concurrency
    /\ Cardinality(Working) <= sem
    /\ sem <= concurrency

PoolBoundWitness ==
    /\ concurrency = 1
    /\ \E t1, t2 \in DOMAIN pc :
          /\ pc[t1] = "inflight" /\ ~IsSlotTask(t1)
          /\ pc[t2] = "wait" /\ IsSlotTask(t2)

\* C7: when Run returns every goroutine it started has ended: none is
\* running, none waits for a permit, every Generate command has finished.
ReturnAfterAllDone ==
    Returned =>
        /\ todo = <<>>
        /\ \A t \in DOMAIN pc : pc[t] = "done"
        /\ wg = 0

ReturnAfterAllDoneWitness ==
    /\ Returned
    /\ \E t1, t2 \in DOMAIN pc :
          /\ ~IsSlotTask(t1) /\ pc[t1] = "done"
          /\ IsSlotTask(t2) /\ pc[t2] = "done"

\* C8: Run returns a nil error whatever the probes and Generate commands
\* did; a failed Generate step or check keeps no slot from being resolved.
RunReturnsNil ==
    /\ retErr \in {"unset", NilErr}
    /\ Returned =>
          /\ retErr = NilErr
          /\ \A l \in DOMAIN writes : Leaf(l).Status # ZeroStatus

RunReturnsNilWitness ==
    /\ Returned
    /\ firstErr # NilErr
    /\ retErr = NilErr
    /\ \E l \in DOMAIN writes : Leaf(l).Status = StatusUnknown

\* C9: the output tree has the shape of the configuration tree: as many
\* groups, tiles per group and slots per tile, in the same order, each
\* carrying the name of the configuration node at its index.
SameShape ==
    Returned =>
        /\ Len(result.Groups) = Len(cfg.Groups)
        /\ \A gi \in 1..Len(cfg.Groups) :
              LET g == cfg.Groups[gi]
                  rg == result.Groups[gi]
              IN /\ rg.Name = g.Name
                 /\ Len(rg.Tiles) = Len(g.Tiles)
                 /\ \A ti \in 1..Len(g.Tiles) :
                       /\ rg.Tiles[ti].Name = g.Tiles[ti].Name
                       /\ Len(rg.Tiles[ti].Slots) = Len(g.Tiles[ti].Slots)
                       /\ \A si \in 1..Len(g.Tiles[ti].Slots) :
                             rg.Tiles[ti].Slots[si].Name = g.Tiles[ti].Slots[si].Name

SameShapeWitness ==
    /\ Returned
    /\ Len(cfg.Groups) = 2
    /\ Len(result.Groups) = 2
    /\ Len(result.Groups[1].Tiles[1].Slots) = 1
    /\ Len(result.Groups[2].Tiles[1].Slots) = 1
    /\ result.Groups[2].Name = "g2"

\* C10: an operation still running when the external context is cancelled
\* ends with an execution error in its raw result, the network probe and
\* the process probe alike.
CancelGivesExecutionError ==
    \A t \in DOMAIN pc :
        (pc[t] = "ran" /\ raw[t] # <<>> /\ cause[t] = "cancel")
            => raw[t][1].Err # NilErr

----------------------------------------------------------------------------
(* Properties of the probes (checked under SpecProbe) *)

ProbeDone(kind) == prPc = "done" /\ prKind = kind

\* C11: a process probe whose command starts and exits with a code c, zero
\* or not, returns a Result with a nil Err and Code c.
ExitCodeIsNoError ==
    (ProbeDone("command") /\ prOutcome.kind = "exit") =>
        /\ prResult.Err = NilErr
        /\ prResult.Code = prOutcome.code

ExitCodeIsNoErrorWitness ==
    /\ ProbeDone("command")
    /\ prOutcome.kind = "exit"
    /\ prOutcome.code = 42
    /\ prOutcome.cause = "none"
    /\ prResult.Err = NilErr
    /\ prResult.Code = 42

\* C12: a process probe whose target command cannot be started or located
\* (a nonexistent executable, a file that may not be executed, no shell)
\* returns a Result with a non-nil Err.
UnstartableGivesError ==
    (ProbeDone("command") /\ prOutcome.cause \in {"notfound", "noperm", "nosh"})
        => prResult.Err # NilErr

\* C13 as stated: a network probe sets Err only when no HTTP response was
\* obtained at all; whenever a response is received, whatever its status,
\* the Result has a nil Err and Code is the HTTP status.
AnyResponseGivesNoError ==
    ProbeDone("http") =>
        /\ prResult.Err # NilErr => prOutcome.kind \in {"badurl", "doerr"}
        /\ prOutcome.kind \in {"response", "bodyerr"} =>
              /\ prResult.Err = NilErr
              /\ prResult.Code = prOutcome.status

\* C13, amended: a network probe returns a nil Err exactly when the response
\* arrived whole, status line and body; Code is then the HTTP status, 4xx
\* and 5xx included, and Output the body. When the response's status line
\* arrived and reading its body failed, Err is set and Code is still the
\* HTTP status; when no response arrived, Err is set and Code is 0.
WholeResponseGivesNoError ==
    ProbeDone("http") =>
        /\ prResult.Err = NilErr <=> prOutcome.kind = "response"
        /\ prOutcome.kind = "response" =>
              /\ prResult.Code = prOutcome.status
              /\ prResult.Output = prOutcome.body
        /\ prOutcome.kind = "bodyerr" => prResult.Code = prOutcome.status
        /\ prOutcome.kind \in {"badurl", "doerr"} => prResult.Code = 0

WholeResponseGivesNoErrorWitness ==
    /\ ProbeDone("http")
    /\ prOutcome.kind = "response"
    /\ prOutcome.status = 503
    /\ prResult.Err = NilErr
    /\ prResult.Code = 503

----------------------------------------------------------------------------
(* The default status of a slot (checked under SpecEval) *)

----------------------------------------------------------------------------
(* Concurrency of the runner (checked under Spec) *)

\* the goroutines between mu.Lock() and mu.Unlock()
Locked == {t \in DOMAIN pc : pc[t] = "locked"}

\* the leaves assigned by a step
Written == {l \in DOMAIN writes : writes'[l] # writes[l]}

\* the goroutines that take a step
Stepping == {t \in DOMAIN pc : pc'[t] # pc[t]}

\* a step of goroutine t that assigns its own leaf and nothing else of the tree
WritesOwnLeaf(t) ==
    /\ Written = {t}
    /\ writes'[t] = writes[t] + 1
    /\ result' = [result EXCEPT !.Groups[t[1]].Tiles[t[2]].Slots[t[3]] =
                     result'.Groups[t[1]].Tiles[t[2]].Slots[t[3]]]

\* C15: a goroutine assigns only the leaf at its own (gi, ti, si): a leaf is
\* assigned only by the slot goroutine of that index and at most once, a
\* Generate goroutine assigns nothing of the output tree, and every
\* assignment is made by the one goroutine that holds the mutex, so that no
\* two assignments overlap.
OwnLeafOnly ==
    /\ [](/\ Cardinality(Locked) <= 1
          /\ \A t \in DOMAIN pc : pc[t] = "locked" <=> mu = <<t>>
          /\ \A l \in DOMAIN writes : writes[l] <= 1)
    /\ [][\A t \in Stepping :
             /\ Stepping = {t}
             /\ IF IsSlotTask(t) /\ pc[t] = "locked"
                THEN WritesOwnLeaf(t)
                ELSE result' = result /\ writes' = writes]_vars

OwnLeafOnlyWitness ==
    /\ \E t1, t2 \in DOMAIN pc :
          /\ IsSlotTask(t1) /\ pc[t1] = "locked"
          /\ IsSlotTask(t2) /\ pc[t2] = "ran"
          /\ t1[1] = t2[1] /\ t1[2] = t2[2]
          /\ writes[t1] = 0
    /\ concurrency = 2

\* the Generate goroutine and a slot goroutine of one tile
SameTile(g, t) == ~IsSlotTask(g) /\ IsSlotTask(t) /\ g[1] = t[1] /\ g[2] = t[2]

\* C16: nothing orders the Generate step of a tile and the slot checks of
\* that tile. Run starts a slot's goroutine whatever the Generate goroutine
\* does; a slot goroutine starts its check as soon as the channel has room
\* and ends it, takes the mutex and writes its leaf whatever the position of
\* the Generate goroutine, and the Generate goroutine runs whatever the
\* positions of the slot goroutines.
NoGenerateSlotOrder ==
    /\ AtStep("slot") => ENABLED SpawnSlot
    /\ \A g \in DOMAIN pc, t \in DOMAIN pc :
          SameTile(g, t) =>
              /\ (pc[t] = "wait" /\ sem < concurrency) => ENABLED SlotAcquire(t)
              /\ pc[t] = "inflight" => ENABLED SlotCheckEnds(t)
              /\ pc[t] = "logging" => ENABLED LogResult(t)
              /\ (pc[t] = "ran" /\ mu = <<>>) => ENABLED Lock(t)
              /\ pc[t] = "locked" => ENABLED SlotWrite(t)
              /\ pc[t] = "finished" => ENABLED Release(t)
              /\ (pc[g] = "wait" /\ sem < concurrency) => ENABLED GenerateAcquire(g)
              /\ pc[g] = "inflight" => ENABLED GenerateEnds(g)

\* a slot check has ended and its leaf is written while the Generate step of
\* its tile has not started
NoGenerateSlotOrderWitness ==
    \E g \in DOMAIN pc, t \in DOMAIN pc :
        /\ SameTile(g, t)
        /\ pc[g] = "wait"
        /\ pc[t] = "done"
        /\ writes[t] = 1

\* the goroutines inside a write to the logger
LoggerWriters == {t \in DOMAIN pc : pc[t] = "logging"}

\* C17: the output tree is the only object the goroutines share: no two
\* goroutines are inside an access to another shared object, such as the
\* logger, at the same time.
OnlyTreeShared == Cardinality(LoggerWriters) <= 1

----------------------------------------------------------------------------
(* Termination of the runner (checked under FairSpec) *)

\* C18: Run returns: for every configuration tree and every pool size, more
\* goroutines than permits included, every goroutine gets its permit and
\* ends, and Run returns.
RunEventuallyReturns ==
    <>(/\ Returned
       /\ \A t \in DOMAIN pc : pc[t] = "done"
       /\ sem = 0)

\* Run has returned from a run of two goroutines on a pool of one
RunEventuallyReturnsWitness ==
    /\ Returned
    /\ concurrency = 1
    /\ Cardinality(DOMAIN pc) = 2
    /\ \A t \in DOMAIN pc : pc[t] = "done"
    /\ sem = 0

----------------------------------------------------------------------------
(* The pool size (checked under SpecPool) *)

Clamp(x, lo, hi) == IF x < lo THEN lo ELSE IF x > hi THEN hi ELSE x

\* C19: the pool size is Options.Concurrency when that is positive, and the
\* number of CPUs clamped to 1..16 when it is zero or negative; it is at
\* least 1 in every case.
PoolSizeClamped ==
    plPc = "done" =>
        /\ plRequested > 0 => plSize = plRequested
        /\ plRequested <= 0 => plSize = Clamp(plNumCPU, 1, 16)
        /\ plSize >= 1

PoolSizeClampedWitness ==
    /\ plPc = "done"
    /\ plRequested = -1
    /\ plNumCPU = 18
    /\ plSize = 16

----------------------------------------------------------------------------
(* Timeouts (checked under SpecTimeout) *)

\* C20: a timeout of zero becomes the default of the kind, 30 s for a check
\* and 60 s for a Generate step, any other configured timeout is used
\* unchanged, and the operation runs under a deadline that exists and lies
\* in the future.
PositiveDeadline ==
    toPc = "done" =>
        /\ toConfigured = 0 =>
              toDeadline.timeout = IF toKind = "generate" THEN 60 ELSE 30
        /\ toConfigured # 0 => toDeadline.timeout = toConfigured
        /\ toDeadline.bounded
        /\ toDeadline.after > 0

----------------------------------------------------------------------------
(* Code conditions (checked under SpecCode) *)

Abs(n) == IF n < 0 THEN 0 - n ELSE n

\* the decimal digits of n hold a 5 followed by two more digits
HasFiveAndTwoDigits(n) == \E k \in 0..3 : ((Abs(n) \div (10 ^ k)) % 1000) \in 500..599

\* C21: a code condition in exact form holds iff the code equals the
\* integer; in regex form it holds iff the regexp matches the decimal
\* rendering of the code: 5\d\d holds of every code from 500 to 599 and of
\* no code whose digits hold no 5 followed by two digits, 200 and 404 among
\* them.
CodeConditionHolds ==
    (evPc = "done" /\ Len(evRules) = 1 /\ evRules[1].Match.Code # <<>>
        /\ evRules[1].Match.Output = <<>> /\ evResult.Err = NilErr) =>
        LET mv == evRules[1].Match.Code[1]
            code == evResult.Code
            held == evStatus = evRules[1].Status
        IN /\ evRules[1].Status # BuiltinErrorStatus
           /\ mv.Exact # <<>> => (held <=> code = mv.Exact[1])
           /\ mv.Regex = <<<<"5", "\\d", "\\d">>>> =>
                 /\ held <=> HasFiveAndTwoDigits(code)
                 /\ code \in 500..599 => held
                 /\ code \in {200, 404} => ~held

CodeConditionHoldsWitness ==
    /\ evPc = "done"
    /\ evRules[1].Match.Code = RegexCode(<<"5", "\\d", "\\d">>)
    /\ evResult.Code = 599
    /\ evStatus = StatusOk

----------------------------------------------------------------------------
(* The probe factory and runSlot (checked under SpecSlot) *)

SlotDone == slPc = "done"

\* C22: NewChecker returns an HTTPChecker for "http", a CommandChecker for
\* "command", and for every other kind an error and no checker.
FactoryByKind ==
    SlotDone =>
        LET kind == slSlot.Check.Type
        IN /\ kind = "http" =>
                 /\ slMade.err = NilErr
                 /\ Len(slMade.chk) = 1
                 /\ slMade.chk[1].kind = "http"
                 /\ slMade.chk[1].URL = slSlot.Check.Target
           /\ kind = "command" =>
                 /\ slMade.err = NilErr
                 /\ Len(slMade.chk) = 1
                 /\ slMade.chk[1].kind = "command"
                 /\ slMade.chk[1].Command = slSlot.Check.Target
           /\ kind \notin {"http", "command"} =>
                 /\ slMade.err # NilErr
                 /\ slMade.chk = <<>>

FactoryByKindWitness ==
    /\ SlotDone
    /\ slSlot.Check.Type = "HTTP"
    /\ slMade.err = "unknown check type"
    /\ slMade.chk = <<>>

\* C23: the logger receives lines only when Verbose is set: after a call
\* with Verbose false the caller's buffer is empty.
QuietUnlessVerbose ==
    (SlotDone /\ ~slOpts.Verbose) => slSink = <<>>

\* the Result the slot's probe returns for the outcome it meets
SlotProbeResult == Check(slMade.chk[1].kind, slOutcome)

\* C27: for a slot whose check kind the factory knows, the SlotResult has
\* the Status Evaluate returns for the probe's Result, the slot's rules and
\* the slot's default status, and the Output of the probe's Result, whether
\* or not the Result carries an execution error.
SlotResultIsEvaluate ==
    (SlotDone /\ slMade.err = NilErr) =>
        /\ slResult.Name = slSlot.Name
        /\ slResult.Status =
              Evaluate(SlotProbeResult, slSlot.Rules, slSlot.DefaultStatus)
        /\ slResult.Output = SlotProbeResult.Output

\* a network probe that got a response but not its body: the catch-all
\* rule's status, not the default status
SlotResultIsEvaluateWitness ==
    /\ SlotDone
    /\ slMade.err = NilErr
    /\ slOutcome.kind = "starterr"
    /\ SlotProbeResult.Err # NilErr
    /\ slSlot.Rules = RulesCatchAll
    /\ slSlot.DefaultStatus = <<StatusUnknown>>
    /\ slResult.Status = StatusDown

\* C29: when NewChecker rejects the slot's check kind, the SlotResult has
\* the slot's default status if it has one and the builtin error status
\* otherwise, and an empty Output; the rules are not consulted, not even a
\* catch-all rule, and no probe runs (runSlot writes no "[result]" line).
RejectedKindSkipsRules ==
    (SlotDone /\ slMade.err # NilErr) =>
        /\ slResult.Name = slSlot.Name
        /\ slResult.Status = IF slSlot.DefaultStatus # <<>> THEN slSlot.DefaultStatus[1]
                             ELSE [ID |-> "error", Label |-> "bolt"]
        /\ slResult.Output = <<>>
        /\ \A i \in 1..Len(slSink) : slSink[i] \in {"check", "error"}

RejectedKindSkipsRulesWitness ==
    /\ SlotDone
    /\ slSlot.Check.Type = "ftp"
    /\ slSlot.Rules = RulesCatchAll
    /\ slSlot.DefaultStatus = <<>>
    /\ slResult.Status = BuiltinErrorStatus
    /\ slSink = <<"check", "error">>

\* C28: a process probe whose command is ended by its timeout never returns
\* a Result with both a nil Err and Code 0: it has an execution error or a
\* non-zero code.
TimeoutKillIsNotSuccess ==
    (ProbeDone("command") /\ prOutcome.cause = "timeout") =>
        ~(prResult.Err = NilErr /\ prResult.Code = 0)

\* the kill surfaces as the sentinel code -1 with no execution error
TimeoutKillIsNotSuccessWitness ==
    /\ ProbeDone("command")
    /\ prOutcome.kind = "signaled"
    /\ prOutcome.cause = "timeout"
    /\ prOutcome.stdout = <<"a">>
    /\ prResult.Err = NilErr
    /\ prResult.Code = -1

\* the goroutines that have taken a permit and not given it back
HoldingPermit == Working

\* C30: every goroutine takes exactly one permit before its probe or its
\* Generate command starts and gives it back exactly once when it ends, on
\* the failing paths too: the channel always holds as many permits as there
\* are goroutines between the send and the deferred receive, none when Run
\* returns; the channel's length changes only by a goroutine's send as it
\* leaves "wait" and by its deferred receive as it leaves "finished".
PermitsMatchHolders ==
    /\ [](sem = Cardinality(HoldingPermit))
    /\ [](Returned => sem = 0)
    /\ [][/\ \A t \in DOMAIN pc :
                /\ (pc[t] = "wait" /\ pc'[t] # "wait")
                      => (sem' = sem + 1 /\ t \in HoldingPermit')
                /\ (t \in HoldingPermit /\ t \notin HoldingPermit')
                      => (sem' = sem - 1 /\ pc[t] = "finished" /\ pc'[t] = "released")
                /\ (t \notin HoldingPermit /\ t \in HoldingPermit') => pc[t] = "wait"
          /\ sem' # sem
                => \E t \in DOMAIN pc : (t \in HoldingPermit) # (t \in HoldingPermit')
         ]_vars

\* a Generate step has failed and given its permit back; a slot check of the
\* same run holds the only permit taken
PermitsMatchHoldersWitness ==
    /\ firstErr # NilErr
    /\ sem = 1
    /\ \E g, t \in DOMAIN pc :
          /\ ~IsSlotTask(g) /\ pc[g] \in {"released", "done"}
          /\ IsSlotTask(t) /\ pc[t] = "inflight"

\* C25: no step of a run changes the configuration tree: the main loop, the
\* Generate goroutines and the slot goroutines with their probes and
\* Evaluate only read groups, tiles, slots, rules and default statuses, so
\* the tree Run returns from is the tree it was called with.
ConfigUnchanged == [][cfg' = cfg]_vars

\* a run with a Generate step and a slot check has returned, every leaf
\* written, and the tile still has its Generate with no timeout set
ConfigUnchangedWitness ==
    /\ Returned
    /\ ~ctxDone
    /\ retErr = NilErr
    /\ firstErr # NilErr
    /\ \A l \in DOMAIN writes : writes[l] = 1
    /\ cfg.Groups[1].Tiles[1].Generate # <<>>
    /\ cfg.Groups[1].Tiles[1].Generate[1].Timeout = 0
    /\ Len(cfg.Groups[1].Tiles[1].Slots) >= 1

----------------------------------------------------------------------------
(* The slot goroutines of one run against a clock.  tmN slot checks that
   each take tmD ticks run on a pool of tmK permits.  A goroutine's own
   steps take no time: the clock advances only when no goroutine can take
   or give back a permit, and each tick is one unit of every running
   check's duration. *)

CheckCounts == 1..4
ClockPoolSizes == 1..3
Durations == 1..2

Running == {i \in 1..tmN : tmState[i] = "run"}

InitClock ==
    /\ tmN \in CheckCounts
    /\ tmK \in ClockPoolSizes
    /\ tmD \in Durations
    /\ tmState = [i \in 1..tmN |-> "wait"]
    /\ tmLeft = [i \in 1..tmN |-> 0]
    /\ tmClock = 0
    /\ EvalIdle
    /\ RunnerIdle
    /\ ProbeIdle
    /\ PoolIdle
    /\ TimeoutIdle
    /\ SlotIdle
    /\ ParseIdle

\* a pool that lets one check run at a time whatever its size
ClockAcquireSerial(i) ==
    /\ tmState[i] = "wait"
    /\ Running = {}
    /\ tmState' = [tmState EXCEPT ![i] = "run"]
    /\ tmLeft' = [tmLeft EXCEPT ![i] = tmD]
    /\ UNCHANGED <<tmN, tmK, tmD, tmClock>>
    /\ UNCHANGED <<evVars, runVars, prVars, plVars, toVars, slVars, paVars>>

\* sem <- struct{}{} of a slot goroutine, then runSlot starts its check
ClockAcquire(i) ==
    /\ tmState[i] = "wait"
    /\ Cardinality(Running) < tmK
    /\ tmState' = [tmState EXCEPT ![i] = "run"]
    /\ tmLeft' = [tmLeft EXCEPT ![i] = tmD]
    /\ UNCHANGED <<tmN, tmK, tmD, tmClock>>
    /\ UNCHANGED <<evVars, runVars, prVars, plVars, toVars, slVars, paVars>>

\* the check has taken its time: runSlot returns, the leaf is written and
\* the deferred <-sem gives the permit back
ClockRelease(i) ==
    /\ tmState[i] = "run"
    /\ tmLeft[i] = 0
    /\ tmState' = [tmState EXCEPT ![i] = "done"]
    /\ UNCHANGED <<tmN, tmK, tmD, tmLeft, tmClock>>
    /\ UNCHANGED <<evVars, runVars, prVars, plVars, toVars, slVars, paVars>>

\* one unit of time passes for every check that is running
ClockTick ==
    /\ Running # {}
    /\ \A i \in 1..tmN : ~ENABLED ClockAcquire(i)
    /\ \A i \in Running : tmLeft[i] > 0
    /\ tmLeft' = [i \in 1..tmN |-> IF i \in Running THEN tmLeft[i] - 1 ELSE tmLeft[i]]
    /\ tmClock' = tmClock + 1
    /\ UNCHANGED <<tmN, tmK, tmD, tmState>>
    /\ UNCHANGED <<evVars, runVars, prVars, plVars, toVars, slVars, paVars>>

NextClock ==
    \/ \E i \in 1..tmN : ClockAcquire(i)
    \/ \E i \in 1..tmN : ClockRelease(i)
    \/ ClockTick

SpecClock == InitClock /\ [][NextClock]_vars

----------------------------------------------------------------------------
(* Properties of the pool against the clock (checked under SpecClock) *)

\* wg.Wait() can return: every slot goroutine has ended
AllChecksDone == tmN > 0 /\ \A i \in 1..tmN : tmState[i] = "done"

Rounds(n, k) == (n + k - 1) \div k

\* C24: N slot checks of duration D on a pool of K permits are all done
\* after ceil(N/K) rounds of duration D, not after N rounds: the checks run
\* K at a time.
ParallelRounds ==
    AllChecksDone => tmClock = Rounds(tmN, tmK) * tmD

\* three checks on two permits are done after two rounds, not three
ParallelRoundsWitness ==
    /\ AllChecksDone
    /\ tmN = 3
    /\ tmK = 2
    /\ tmD = 2
    /\ tmClock = 4

----------------------------------------------------------------------------
(* config.Parse: yaml.Unmarshal into a Config, then validate.  The input is
   what the decoder makes of the document: a decoding error, or the decoded
   tree with every omitted string empty and every omitted list of length 0. *)

\* the error of the first element of a list that has one (a loop that
\* returns at the first error)
FirstError(errs) ==
    LET bad == {i \in 1..Len(errs) : errs[i] # NilErr}
    IN IF bad = {} THEN NilErr
       ELSE errs[CHOOSE i \in bad : \A j \in bad : i <= j]

validateRule(r) ==
    IF r.Status.ID = "" THEN "status.id is required"
    ELSE IF r.Status.Label = "" THEN "status.label is required"
    ELSE IF r.Match.Output # <<>> /\ ~Compiles(r.Match.Output) THEN "invalid output regex"
    ELSE NilErr

validateDefaultStatus(s) ==
    IF s.DefaultStatus # <<>>
    THEN IF s.DefaultStatus[1].ID = "" THEN "default_status.id is required"
         ELSE IF s.DefaultStatus[1].Label = "" THEN "default_status.label is required"
         ELSE NilErr
    ELSE NilErr

\* a validateSlot that accepts a slot without rules
validateSlotAllowsNoRules(s) ==
    IF s.Name = "" THEN "slot name is required"
    ELSE IF s.Check.Type = "" THEN "check.type is required"
    ELSE IF s.Check.Type # "http" /\ s.Check.Type # "command" THEN "check.type must be"
    ELSE IF s.Check.Target = "" THEN "check.target is required"
    ELSE IF FirstError([ri \in 1..Len(s.Rules) |-> validateRule(s.Rules[ri])]) # NilErr
    THEN FirstError([ri \in 1..Len(s.Rules) |-> validateRule(s.Rules[ri])])
    ELSE validateDefaultStatus(s)

validateSlot(s) ==
    IF s.Name = "" THEN "slot name is required"
    ELSE IF s.Check.Type = "" THEN "check.type is required"
    ELSE IF s.Check.Type # "http" /\ s.Check.Type # "command" THEN "check.type must be"
    ELSE IF s.Check.Target = "" THEN "check.target is required"
    ELSE IF Len(s.Rules) = 0 THEN "at least one rule is required"
    ELSE IF FirstError([ri \in 1..Len(s.Rules) |-> validateRule(s.Rules[ri])]) # NilErr
    THEN FirstError([ri \in 1..Len(s.Rules) |-> validateRule(s.Rules[ri])])
    ELSE validateDefaultStatus(s)

validateTile(t) ==
    IF t.Name = "" THEN "tile name is required"
    ELSE IF t.Display = "" THEN "display is required"
    ELSE IF t.Generate # <<>> /\ t.Generate[1].Command = ""
    THEN "generate.command is required"
    ELSE FirstError([si \in 1..Len(t.Slots) |-> validateSlot(t.Slots[si])])

validateGroup(g) ==
    IF g.Name = "" THEN "group name is required"
    ELSE IF Len(g.Tiles) = 0 THEN "at least one tile is required"
    ELSE FirstError([ti \in 1..Len(g.Tiles) |-> validateTile(g.Tiles[ti])])

\* Config.validate: the error, and the Config with its theme defaulted
\* (validate has a pointer receiver and assigns c.Theme before it goes on)
validate(c) ==
    LET themed == IF c.Theme = "" THEN [c EXCEPT !.Theme = "dark"] ELSE c
        verr == IF c.Title = "" THEN "title is required"
                ELSE IF themed.Theme # "dark" /\ themed.Theme # "light"
                THEN "theme must be"
                ELSE IF Len(c.Groups) = 0 THEN "at least one group is required"
                ELSE FirstError([gi \in 1..Len(c.Groups) |-> validateGroup(c.Groups[gi])])
    IN [cfg |-> IF c.Title = "" THEN c ELSE themed, err |-> verr]

\* Parse: nil and the error of the decoder or of validate, or &cfg and nil
Parse(data) ==
    IF data.unmarshalErr THEN [cfg |-> <<>>, err |-> "parsing config"]
    ELSE LET v == validate(data.doc)
         IN IF v.err # NilErr THEN [cfg |-> <<>>, err |-> v.err]
            ELSE [cfg |-> <<v.cfg>>, err |-> NilErr]

\* A document every field of which is in order: two groups, three tiles,
\* the last tile with two slots.
RuleOutputA ==
    [Match |-> [Code |-> <<>>, Output |-> <<"a">>], Status |-> StatusOk]

DocSlot(name, type) ==
    [Name |-> name,
     Check |-> [Type |-> type, Target |-> "target", Timeout |-> 0],
     Rules |-> RulesByCode,
     DefaultStatus |-> <<>>]

DocTile(name, slots) ==
    [Name |-> name, Display |-> "icon", Link |-> "", Generate |-> <<>>, Slots |-> slots]

BaseDoc ==
    [Title |-> "home",
     Theme |-> "dark",
     Groups |-> <<[Name |-> "g1",
                   Tiles |-> <<DocTile("t1", <<DocSlot("s1", "http")>>)>>],
                  [Name |-> "g2",
                   Tiles |-> <<DocTile("t1", <<DocSlot("s1", "command")>>),
                               DocTile("t2", <<DocSlot("s1", "http"),
                                               DocSlot("s2", "command")>>)>>]>>]

Edits ==
    {"none", "title", "themeOmitted", "themeLight", "themeBlue", "themeUpper",
     "noGroups", "groupName", "noTiles", "tileNameFirst", "tileNameLast",
     "display", "generate", "generateNoCommand", "noSlots", "slotName",
     "typeOmitted", "typeFtp", "typeUpper", "typeCommand", "target", "noRules",
     "ruleNoId", "ruleNoLabel", "ruleBadRegex", "ruleGoodRegex",
     "default", "defaultNoId", "defaultNoLabel"}

\* one change to a document; the changes to a slot are to the last slot of
\* the last tile
Edit(e, d) ==
    CASE e = "none" -> d
      [] e = "title" -> [d EXCEPT !.Title = ""]
      [] e = "themeOmitted" -> [d EXCEPT !.Theme = ""]
      [] e = "themeLight" -> [d EXCEPT !.Theme = "light"]
      [] e = "themeBlue" -> [d EXCEPT !.Theme = "blue"]
      [] e = "themeUpper" -> [d EXCEPT !.Theme = "Dark"]
      [] e = "noGroups" -> [d EXCEPT !.Groups = <<>>]
      [] e = "groupName" -> [d EXCEPT !.Groups[2].Name = ""]
      [] e = "noTiles" -> [d EXCEPT !.Groups[1].Tiles = <<>>]
      [] e = "tileNameFirst" -> [d EXCEPT !.Groups[1].Tiles[1].Name = ""]
      [] e = "tileNameLast" -> [d EXCEPT !.Groups[2].Tiles[2].Name = ""]
      [] e = "display" -> [d EXCEPT !.Groups[2].Tiles[1].Display = ""]
      [] e = "generate" ->
            [d EXCEPT !.Groups[2].Tiles[2].Generate =
                          <<[Command |-> "make-banner", Timeout |-> 0]>>]
      [] e = "generateNoCommand" ->
            [d EXCEPT !.Groups[2].Tiles[2].Generate = <<[Command |-> "", Timeout |-> 0]>>]
      [] e = "noSlots" -> [d EXCEPT !.Groups[2].Tiles[1].Slots = <<>>]
      [] e = "slotName" -> [d EXCEPT !.Groups[2].Tiles[2].Slots[2].Name = ""]
      [] e = "typeOmitted" -> [d EXCEPT !.Groups[2].Tiles[2].Slots[2].Check.Type = ""]
      [] e = "typeFtp" -> [d EXCEPT !.Groups[2].Tiles[2].Slots[2].Check.Type = "ftp"]
      [] e = "typeUpper" -> [d EXCEPT !.Groups[2].Tiles[2].Slots[2].Check.Type = "HTTP"]
      [] e = "typeCommand" -> [d EXCEPT !.Groups[1].Tiles[1].Slots[1].Check.Type = "command"]
      [] e = "target" -> [d EXCEPT !.Groups[2].Tiles[2].Slots[2].Check.Target = ""]
      [] e = "noRules" -> [d EXCEPT !.Groups[2].Tiles[2].Slots[2].Rules = <<>>]
      [] e = "ruleNoId" ->
            [d EXCEPT !.Groups[2].Tiles[2].Slots[2].Rules[2].Status.ID = ""]
      [] e = "ruleNoLabel" ->
            [d EXCEPT !.Groups[2].Tiles[2].Slots[2].Rules[2].Status.Label = ""]
      [] e = "ruleBadRegex" ->
            [d EXCEPT !.Groups[2].Tiles[2].Slots[2].Rules[1].Match.Output = <<"(">>]
      [] e = "ruleGoodRegex" ->
            [d EXCEPT !.Groups[2].Tiles[2].Slots[2].Rules[1] = RuleOutputA]
      [] e = "default" ->
            [d EXCEPT !.Groups[2].Tiles[2].Slots[2].DefaultStatus = <<StatusUnknown>>]
      [] e = "defaultNoId" ->
            [d EXCEPT !.Groups[2].Tiles[2].Slots[2].DefaultStatus =
                          <<[ID |-> "", Label |-> "?"]>>]
      [] e = "defaultNoLabel" ->
            [d EXCEPT !.Groups[2].Tiles[2].Slots[2].DefaultStatus =
                          <<[ID |-> "unknown", Label |-> ""]>>]

\* the documents at most two changes away from BaseDoc, in the order the
\* changes apply (a change below a list emptied before it does not apply)
Applies(e, d) ==
    CASE e \in {"none", "title", "themeOmitted", "themeLight", "themeBlue",
                "themeUpper", "noGroups"} -> TRUE
      [] e \in {"tileNameFirst", "typeCommand"} ->
            Len(d.Groups) = 2 /\ Len(d.Groups[1].Tiles) = 1
      [] e \in {"ruleNoId", "ruleNoLabel", "ruleBadRegex", "ruleGoodRegex"} ->
            Len(d.Groups) = 2 /\ Len(d.Groups[2].Tiles[2].Slots[2].Rules) = 2
      [] OTHER -> Len(d.Groups) = 2

EditIf(e, d) == IF Applies(e, d) THEN Edit(e, d) ELSE d

Docs == {EditIf(e2, EditIf(e1, BaseDoc)) : e1, e2 \in Edits}

ParseInputs ==
    [unmarshalErr : {FALSE}, doc : Docs] \cup [unmarshalErr : {TRUE}, doc : {BaseDoc}]

InitParse ==
    /\ paPc = "call"
    /\ paInput \in {<<d>> : d \in ParseInputs}
    /\ paCfg = <<>>
    /\ paErr = NilErr
    /\ EvalIdle
    /\ RunnerIdle
    /\ ProbeIdle
    /\ PoolIdle
    /\ TimeoutIdle
    /\ SlotIdle
    /\ ClockIdle

ParseCall ==
    /\ paPc = "call"
    /\ paCfg' = Parse(paInput[1]).cfg
    /\ paErr' = Parse(paInput[1]).err
    /\ paPc' = "done"
    /\ UNCHANGED paInput
    /\ UNCHANGED <<evVars, runVars, prVars, plVars, toVars, slVars, tmVars>>

NextParse == ParseCall

SpecParse == InitParse /\ [][NextParse]_vars

----------------------------------------------------------------------------
(* Properties of Parse (checked under SpecParse) *)

ParseDone == paPc = "done"

\* the tiles and the slots of a tree
TilesOf(c) ==
    UNION {{c.Groups[gi].Tiles[ti] : ti \in 1..Len(c.Groups[gi].Tiles)}
           : gi \in 1..Len(c.Groups)}

SlotsOf(c) == UNION {{t.Slots[si] : si \in 1..Len(t.Slots)} : t \in TilesOf(c)}

\* the faults the claim lists
ListedFault(c) ==
    \/ c.Title = ""
    \/ c.Theme \notin {"", "dark", "light"}
    \/ Len(c.Groups) = 0
    \/ \E t \in TilesOf(c) : t.Name = ""
    \/ \E s \in SlotsOf(c) :
          \/ s.Check.Type \notin {"http", "command"}
          \/ s.Check.Target = ""
          \/ Len(s.Rules) = 0
          \/ \E ri \in 1..Len(s.Rules) : s.Rules[ri].Status.ID = ""

\* C26: Parse returns an error and no configuration when the document does
\* not decode, the title is empty, the theme is given and neither "dark" nor
\* "light", there is no group, a tile has no name, a check type is not
\* "http" or "command", a check target is empty, a slot has no rule or a
\* rule's status has no id; a configuration Parse returns comes with no
\* error, has a rule in every slot, only the check types "http" and
\* "command", and the theme "dark" where the document had none.
ParseRejectsFaults ==
    ParseDone =>
        /\ (paCfg = <<>>) # (paErr = NilErr)
        /\ (paInput[1].unmarshalErr \/ ListedFault(paInput[1].doc))
              => (paErr # NilErr /\ paCfg = <<>>)
        /\ paCfg # <<>> =>
              /\ \A s \in SlotsOf(paCfg[1]) :
                    /\ Len(s.Rules) >= 1
                    /\ s.Check.Type \in {"http", "command"}
              /\ paCfg[1].Theme \in {"dark", "light"}
              /\ paInput[1].doc.Theme = "" => paCfg[1].Theme = "dark"
              /\ paInput[1].doc.Theme # "" => paCfg[1] = paInput[1].doc

\* a document without a theme whose last slot has the check type "ftp"
ParseRejectsFaultsWitness ==
    /\ ParseDone
    /\ ~paInput[1].unmarshalErr
    /\ paInput[1].doc.Theme = ""
    /\ Len(paInput[1].doc.Groups) = 2
    /\ paInput[1].doc.Groups[2].Tiles[2].Slots[2].Check.Type = "ftp"
    /\ paCfg = <<>>
    /\ paErr = "check.type must be"

====
